---------------------------- MODULE Spec2Model ----------------------------
(***************************************************************************)
(* Model of bridge/src/client/data_store/aws_s3.rs: the AwsS3 data store   *)
(* driver (construction from four configuration values, key derivation,   *)
(* get/put of plain and compressed objects, paginated listing) running     *)
(* against an object store that applies each request atomically.           *)
(*                                                                         *)
(* Strings are sequences of Unicode scalar values, byte buffers sequences  *)
(* of 0..255.  Keys are ASCII, so a key is its own byte sequence.          *)
(* 47 is "/", 97.. is "a"...                                               *)
(***************************************************************************)
EXTENDS Integers, Sequences, FiniteSets, TLC

VARIABLES
    env,      \* the configuration variables that are set (dotenv)
    driver,   \* what AwsS3::new returned: "unbuilt", "None", "Some", "panic"
    bucket,   \* the backend: objects in key order, [key, bytes, by]
    pc,       \* per task: where its current driver call is suspended
    fr,       \* per task: arguments and locals of the call in progress
    result,   \* per task: what its last completed call returned
    calls     \* number of driver calls started so far

vars == <<env, driver, bucket, pc, fr, result, calls>>

-----------------------------------------------------------------------------
(* Bounds of the model *)

MaxCalls == 3      \* driver calls started in one behaviour
ChunkLen == 2      \* bytes per chunk of a streamed response body
MaxObjs == 120     \* objects under the bulk path in the listing runs

Tasks == {1, 2}

\* Option<T>
None == [some |-> FALSE, v |-> <<>>]
Some(x) == [some |-> TRUE, v |-> x]

\* (path, name) of the files used: c, a/c, a/(b/c), (a/b)/c
Files ==
    {[path |-> None, name |-> <<99>>],
     [path |-> Some(<<97>>), name |-> <<99>>],
     [path |-> Some(<<97>>), name |-> <<98, 47, 99>>],
     [path |-> Some(<<97, 47, 98>>), name |-> <<99>>]}
\* paths listed: None, "a", "a/b", "b"
ListPaths == {None, Some(<<97>>), Some(<<97, 47, 98>>), Some(<<98>>)}
\* plain contents: "", "A" U+00E9 (3 bytes), U+20AC U+1F600 (7 bytes)
Strings == {<<>>, <<65, 233>>, <<8364, 128512>>}
\* binary contents: empty, four equal bytes
Blobs == {<<>>, <<7, 7, 7, 7>>}
\* the files and contents of the tasks that share a driver
SharedFiles == Files \ {[path |-> Some(<<97>>), name |-> <<99>>]}
SharedStrings == {<<65, 233>>, <<233, 65>>}

ConfigVars == {"BRIDGE_AWS_ACCESS_KEY_ID", "BRIDGE_AWS_SECRET_ACCESS_KEY",
               "BRIDGE_AWS_REGION", "BRIDGE_AWS_BUCKET"}

Min(a, b) == IF a < b THEN a ELSE b


-----------------------------------------------------------------------------
(* Errors.  An error value is [class, code]: the class is the text the     *)
(* error displays, the code is the fault a service error carries inside.   *)

NoError == [class |-> "", code |-> ""]
ServiceError(code) == [class |-> "service error", code |-> code]
DispatchFailure == [class |-> "dispatch failure", code |-> ""]
ResponseError == [class |-> "response error", code |-> ""]
Utf8Error == [class |-> "invalid utf-8 sequence", code |-> ""]
FrameError == [class |-> "Unknown frame descriptor", code |-> ""]

\* "{}" of an error in format!: the SDK's errors display their class only
Display(e) == e.class

\* crate::error::err_to_string: the error's description as a string; the
\* fault code of a backend error is not preserved
err_to_string(e) == <<Display(e)>>

-----------------------------------------------------------------------------
(* Strings and bytes: str::as_bytes, str::len, String::from_utf8 *)

Utf8EncodeChar(c) ==
    IF c < 128 THEN <<c>>
    ELSE IF c < 2048 THEN <<192 + (c \div 64), 128 + (c % 64)>>
    ELSE IF c < 65536 THEN
        <<224 + (c \div 4096), 128 + ((c \div 64) % 64), 128 + (c % 64)>>
    ELSE <<240 + (c \div 262144), 128 + ((c \div 4096) % 64),
           128 + ((c \div 64) % 64), 128 + (c % 64)>>

RECURSIVE AsBytes(_)
\* contents.as_bytes().to_vec(): the UTF-8 encoding of the string
AsBytes(s) ==
    IF s = <<>> THEN <<>> ELSE Utf8EncodeChar(Head(s)) \o AsBytes(Tail(s))

\* contents.len(): the length of a str is its length in bytes
StrLen(s) == Len(AsBytes(s))

IsCont(b) == b >= 128 /\ b <= 191

\* number of bytes the sequence led by b must have, 0 for an invalid lead byte
Utf8Width(b) ==
    IF b < 128 THEN 1
    ELSE IF b >= 194 /\ b <= 223 THEN 2
    ELSE IF b >= 224 /\ b <= 239 THEN 3
    ELSE IF b >= 240 /\ b <= 244 THEN 4
    ELSE 0

Utf8Scalar(buf, w) ==
    IF w = 1 THEN buf[1]
    ELSE IF w = 2 THEN (buf[1] - 192) * 64 + (buf[2] - 128)
    ELSE IF w = 3 THEN
        (buf[1] - 224) * 4096 + (buf[2] - 128) * 64 + (buf[3] - 128)
    ELSE (buf[1] - 240) * 262144 + (buf[2] - 128) * 4096
         + (buf[3] - 128) * 64 + (buf[4] - 128)

Utf8ScalarOk(c, w) ==
    /\ w = 3 => c >= 2048 /\ ~(c >= 55296 /\ c <= 57343)
    /\ w = 4 => c >= 65536 /\ c <= 1114111

RECURSIVE Utf8Decode(_, _)
Utf8Decode(buf, acc) ==
    IF buf = <<>> THEN [ok |-> TRUE, val |-> acc, err |-> NoError]
    ELSE LET w == Utf8Width(Head(buf)) IN
         IF \/ w = 0
            \/ w > Len(buf)
            \/ \E i \in 2..w : ~IsCont(buf[i])
            \/ ~Utf8ScalarOk(Utf8Scalar(buf, w), w)
         THEN [ok |-> FALSE, val |-> <<>>, err |-> Utf8Error]
         ELSE Utf8Decode(SubSeq(buf, w + 1, Len(buf)),
                         Append(acc, Utf8Scalar(buf, w)))

\* String::from_utf8(buffer)
FromUtf8(buffer) == Utf8Decode(buffer, <<>>)

-----------------------------------------------------------------------------
(* crate::utils::{compress, decompress}: a framed codec, one magic byte    *)
(* followed by (run length, byte) pairs; runs are at most `level` long.    *)

DEFAULT_COMPRESSION_LEVEL == 3
FrameMagic == 253

RunLen(b, cap) ==
    LET m == Min(cap, Len(b)) IN
    CHOOSE n \in 1..m :
        /\ \A i \in 1..n : b[i] = b[1]
        /\ n = m \/ b[n + 1] # b[1]

RECURSIVE RunEncode(_, _)
RunEncode(b, cap) ==
    IF b = <<>> THEN <<>>
    ELSE LET n == RunLen(b, cap) IN
         <<n, b[1]>> \o RunEncode(SubSeq(b, n + 1, Len(b)), cap)

RECURSIVE RunDecode(_)
RunDecode(p) ==
    IF p = <<>> THEN <<>>
    ELSE [i \in 1..p[1] |-> p[2]] \o RunDecode(SubSeq(p, 3, Len(p)))

compress(contents, level) ==
    [ok |-> TRUE, val |-> <<FrameMagic>> \o RunEncode(contents, level),
     err |-> NoError]

decompress(buffer) ==
    IF \/ buffer = <<>>
       \/ buffer[1] # FrameMagic
       \/ Len(buffer) % 2 # 1
       \/ \E i \in 1..((Len(buffer) - 1) \div 2) : buffer[2 * i] = 0
    THEN [ok |-> FALSE, val |-> <<>>, err |-> FrameError]
    ELSE [ok |-> TRUE, val |-> RunDecode(Tail(buffer)), err |-> NoError]

-----------------------------------------------------------------------------
(* Key addressing *)

\* "{path}{key}"
GetKeyWithPrefix_NoSeparator(key, file_path) ==
    IF file_path.some THEN file_path.v \o key ELSE key

\* AwsS3::get_object: key_with_prefix
GetKeyWithPrefix(key, file_path) ==
    IF file_path.some THEN file_path.v \o <<47>> \o key ELSE key

\* AwsS3::upload_object: key_with_prefix
PutKeyWithPrefix(key, file_path) ==
    IF file_path.some THEN file_path.v \o <<47>> \o key ELSE key

\* prefix assigned to a shadowing binding: it stays empty
ListPrefix_Shadowed(file_path) == <<>>

\* list_objects: prefix
ListPrefix(file_path) ==
    IF file_path.some THEN file_path.v \o <<47>> ELSE <<>>

-----------------------------------------------------------------------------
(* The object store behind the SDK client: one bucket, kept in key order   *)
(* (UTF-8 binary order).  `by' remembers the upload that wrote an object.  *)

NoBy == [op |-> "", name |-> <<>>, path |-> None, contents |-> <<>>, size |-> 0]

KeyLess(a, b) ==
    \E i \in 1..(Min(Len(a), Len(b)) + 1) :
        /\ \A j \in 1..(i - 1) : a[j] = b[j]
        /\ \/ i > Len(a) /\ i <= Len(b)
           \/ i <= Len(a) /\ i <= Len(b) /\ a[i] < b[i]

StartsWith(k, prefix) ==
    Len(prefix) <= Len(k) /\ SubSeq(k, 1, Len(prefix)) = prefix

HasObject(b, k) == \E i \in 1..Len(b) : b[i].key = k

ObjectAt(b, k) == b[CHOOSE i \in 1..Len(b) : b[i].key = k]

\* client.put_object().bucket(..).key(k).body(data).send(): create or replace
PutObject(b, k, data, by) ==
    SelectSeq(b, LAMBDA o : KeyLess(o.key, k))
    \o <<[key |-> k, bytes |-> data, by |-> by]>>
    \o SelectSeq(b, LAMBDA o : KeyLess(k, o.key))

\* client.list_objects_v2().prefix(..).max_keys(..): one page, the keys with
\* the prefix that follow the continuation token
ListObjectsV2(b, prefix, token, max_keys) ==
    LET rest == SelectSeq(b, LAMBDA o :
                    /\ StartsWith(o.key, prefix)
                    /\ token.some => KeyLess(token.v, o.key))
        n == Min(max_keys, Len(rest))
    IN  [contents |-> [i \in 1..n |-> [key |-> Some(rest[i].key)]],
         next |-> IF Len(rest) > n THEN Some(rest[n].key) ELSE None]

-----------------------------------------------------------------------------
(* Return values: Result<_, String>.  An error string is the sequence of   *)
(* the pieces format! joined.                                              *)

OkRet(val, keys, size) ==
    [ok |-> TRUE, val |-> val, keys |-> keys, size |-> size, err |-> <<>>]
ErrRet(err) ==
    [ok |-> FALSE, val |-> <<>>, keys |-> <<>>, size |-> 0, err |-> err]

NoFrame ==
    [op |-> "", name |-> <<>>, path |-> None, key |-> <<>>, input |-> <<>>,
     data |-> <<>>, size |-> 0, buffer |-> <<>>, got |-> NoBy,
     token |-> None, keys |-> <<>>, pages |-> 0]

NoResult ==
    [op |-> "", name |-> <<>>, path |-> None, key |-> <<>>, input |-> <<>>,
     ret |-> ErrRet(<<>>), fault |-> NoError, got |-> NoBy, pages |-> 0]

\* the call of task t returns ret; fault is the backend error behind it
Return(t, ret, fault) ==
    /\ pc' = [pc EXCEPT ![t] = "idle"]
    /\ result' = [result EXCEPT ![t] =
          [op |-> fr[t].op, name |-> fr[t].name, path |-> fr[t].path,
           key |-> fr[t].key, input |-> fr[t].input, ret |-> ret,
           fault |-> fault, got |-> fr[t].got, pages |-> fr[t].pages]]
    /\ fr' = [fr EXCEPT ![t] = NoFrame]

-----------------------------------------------------------------------------
(* AwsS3::new *)

\* bucket.is_err() left out of the condition
AnyVarMissing_NoBucket(e) ==
    \/ "BRIDGE_AWS_ACCESS_KEY_ID" \notin e
    \/ "BRIDGE_AWS_SECRET_ACCESS_KEY" \notin e
    \/ "BRIDGE_AWS_REGION" \notin e

\* the condition of the early return
AnyVarMissing(e) ==
    \/ "BRIDGE_AWS_ACCESS_KEY_ID" \notin e
    \/ "BRIDGE_AWS_SECRET_ACCESS_KEY" \notin e
    \/ "BRIDGE_AWS_REGION" \notin e
    \/ "BRIDGE_AWS_BUCKET" \notin e

\* None, Some(driver), or a panic of one of the four unwrap()
AwsS3New(e) ==
    IF AnyVarMissing(e) THEN "None"
    ELSE IF ConfigVars \subseteq e THEN "Some"
    ELSE "panic"

New ==
    /\ driver = "unbuilt"
    /\ driver' = AwsS3New(env)
    /\ UNCHANGED <<env, bucket, pc, fr, result, calls>>

\* a task may call the driver it holds
CanCall(t) == driver = "Some" /\ pc[t] = "idle" /\ calls < MaxCalls

-----------------------------------------------------------------------------
(* upload_object, upload_compressed_object *)

\* size taken as the number of characters
UploadSize_CharCount(contents) == Len(contents)

\* upload_object: size
UploadSize(contents) == StrLen(contents)

\* the match on the put's outcome, in both upload operations
UploadMatch(put, size) ==
    IF put.ok THEN OkRet(<<>>, <<>>, size)
    ELSE ErrRet(<<"Failed to save json file: ", Display(put.err)>>)

UploadObject(t, file_name, contents, file_path) ==
    /\ CanCall(t)
    /\ calls' = calls + 1
    /\ fr' = [fr EXCEPT ![t] =
          [NoFrame EXCEPT !.op = "upload_object", !.name = file_name,
             !.path = file_path, !.input = contents,
             !.size = UploadSize(contents), !.data = AsBytes(contents),
             !.key = PutKeyWithPrefix(file_name, file_path)]]
    /\ pc' = [pc EXCEPT ![t] = "put"]
    /\ UNCHANGED <<env, driver, bucket, result>>

UploadCompressedObject(t, file_name, contents, file_path) ==
    LET compressed_data == compress(contents, DEFAULT_COMPRESSION_LEVEL) IN
    /\ CanCall(t)
    /\ calls' = calls + 1
    /\ IF compressed_data.ok
       THEN /\ fr' = [fr EXCEPT ![t] =
                  [NoFrame EXCEPT !.op = "upload_compressed_object",
                     !.name = file_name, !.path = file_path,
                     !.input = contents,
                     !.size = Len(compressed_data.val),
                     !.data = compressed_data.val,
                     !.key = PutKeyWithPrefix(file_name, file_path)]]
            /\ pc' = [pc EXCEPT ![t] = "put"]
            /\ UNCHANGED result
       ELSE /\ pc' = pc
            /\ fr' = fr
            /\ result' = [result EXCEPT ![t] =
                  [NoResult EXCEPT !.op = "upload_compressed_object",
                     !.name = file_name, !.path = file_path,
                     !.input = contents,
                     !.ret = ErrRet(err_to_string(compressed_data.err))]]
    /\ UNCHANGED <<env, driver, bucket>>

\* the put request of task t is applied by the backend
PutApplied(t) ==
    /\ pc[t] = "put"
    /\ bucket' = PutObject(bucket, fr[t].key, fr[t].data,
                     [op |-> fr[t].op, name |-> fr[t].name,
                      path |-> fr[t].path, contents |-> fr[t].input,
                      size |-> fr[t].size])
    /\ Return(t, UploadMatch([ok |-> TRUE, err |-> NoError], fr[t].size),
              NoError)
    /\ UNCHANGED <<env, driver, calls>>

\* the put request of task t fails before the backend applies it
PutFailed(t) ==
    /\ pc[t] = "put"
    /\ Return(t, UploadMatch([ok |-> FALSE, err |-> DispatchFailure],
                             fr[t].size), DispatchFailure)
    /\ UNCHANGED <<env, driver, bucket, calls>>

-----------------------------------------------------------------------------
(* get_object, fetch_object, fetch_compressed_object *)

\* buffer = bytes.to_vec()
AppendChunk_Overwrite(buffer, bytes) == bytes

\* get_object: buffer.append(&mut bytes.to_vec())
AppendChunk(buffer, bytes) == buffer \o bytes

\* a failed get read as an empty document
FetchObjectMatch_Default(response) ==
    IF response.ok
    THEN LET json == FromUtf8(response.val) IN
         IF json.ok THEN OkRet(json.val, <<>>, 0)
         ELSE ErrRet(<<"Failed to parse json: ", Display(json.err)>>)
    ELSE OkRet(<<>>, <<>>, 0)

\* bytes decoded with String::from_utf8_lossy
FetchObjectMatch_Lossy(response) ==
    IF response.ok
    THEN LET json == FromUtf8(response.val) IN
         IF json.ok THEN OkRet(json.val, <<>>, 0)
         ELSE OkRet(<<65533>>, <<>>, 0)
    ELSE ErrRet(<<"Failed to get json file: ">> \o response.err)

\* fetch_object: the match on get_object's response
FetchObjectMatch(response) ==
    IF response.ok
    THEN LET json == FromUtf8(response.val) IN
         IF json.ok THEN OkRet(json.val, <<>>, 0)
         ELSE ErrRet(<<"Failed to parse json: ", Display(json.err)>>)
    ELSE ErrRet(<<"Failed to get json file: ">> \o response.err)

\* size taken after decompressing
FetchCompressedMatch_PlainSize(response) ==
    IF response.ok
    THEN LET plain == decompress(response.val)
             size == Len(plain.val)
         IN  IF plain.ok THEN OkRet(plain.val, <<>>, size)
             ELSE ErrRet(err_to_string(plain.err))
    ELSE ErrRet(<<"Failed to get json file: ">> \o response.err)

\* fetch_compressed_object: the match on get_object's response
FetchCompressedMatch(response) ==
    IF response.ok
    THEN LET size == Len(response.val)
             plain == decompress(response.val)
         IN  IF plain.ok THEN OkRet(plain.val, <<>>, size)
             ELSE ErrRet(err_to_string(plain.err))
    ELSE ErrRet(<<"Failed to get json file: ">> \o response.err)

\* get_object returned `response' to the fetch operation of task t
FetchReturn(t, response, fault) ==
    Return(t, IF fr[t].op = "fetch_object" THEN FetchObjectMatch(response)
              ELSE FetchCompressedMatch(response), fault)

FetchObject(t, file_name, file_path) ==
    /\ CanCall(t)
    /\ calls' = calls + 1
    /\ fr' = [fr EXCEPT ![t] =
          [NoFrame EXCEPT !.op = "fetch_object", !.name = file_name,
             !.path = file_path,
             !.key = GetKeyWithPrefix(file_name, file_path)]]
    /\ pc' = [pc EXCEPT ![t] = "get"]
    /\ UNCHANGED <<env, driver, bucket, result>>

FetchCompressedObject(t, file_name, file_path) ==
    /\ CanCall(t)
    /\ calls' = calls + 1
    /\ fr' = [fr EXCEPT ![t] =
          [NoFrame EXCEPT !.op = "fetch_compressed_object",
             !.name = file_name, !.path = file_path,
             !.key = GetKeyWithPrefix(file_name, file_path)]]
    /\ pc' = [pc EXCEPT ![t] = "get"]
    /\ UNCHANGED <<env, driver, bucket, result>>

\* the backend answers the get request with the object now stored at the key
GetAnswered(t) ==
    /\ pc[t] = "get"
    /\ HasObject(bucket, fr[t].key)
    /\ LET o == ObjectAt(bucket, fr[t].key) IN
       fr' = [fr EXCEPT ![t].data = o.bytes, ![t].got = o.by,
                        ![t].buffer = <<>>]
    /\ pc' = [pc EXCEPT ![t] = "body"]
    /\ UNCHANGED <<env, driver, bucket, result, calls>>

\* the get request fails: no such key, or a fault of the service or network
GetFailed(t) ==
    /\ pc[t] = "get"
    /\ \E e \in {ServiceError("NoSuchKey"), ServiceError("AccessDenied"),
                 DispatchFailure} :
          /\ e = ServiceError("NoSuchKey") => ~HasObject(bucket, fr[t].key)
          /\ FetchReturn(t, [ok |-> FALSE, val |-> <<>>,
                             err |-> err_to_string(e)], e)
    /\ UNCHANGED <<env, driver, bucket, calls>>

\* data.body.try_next() yields the next chunk of the body
BodyChunk(t) ==
    /\ pc[t] = "body"
    /\ fr[t].data # <<>>
    /\ LET n == Min(ChunkLen, Len(fr[t].data)) IN
       fr' = [fr EXCEPT
                ![t].buffer = AppendChunk(fr[t].buffer,
                                          SubSeq(fr[t].data, 1, n)),
                ![t].data = SubSeq(fr[t].data, n + 1, Len(fr[t].data))]
    /\ UNCHANGED <<env, driver, bucket, pc, result, calls>>

\* data.body.try_next() fails: the stream broke
BodyFailed(t) ==
    /\ pc[t] = "body"
    /\ FetchReturn(t, [ok |-> FALSE, val |-> <<>>,
                       err |-> err_to_string(ResponseError)], ResponseError)
    /\ UNCHANGED <<env, driver, bucket, calls>>

\* data.body.try_next() yields None: get_object returns Ok(buffer)
BodyEnd(t) ==
    /\ pc[t] = "body"
    /\ fr[t].data = <<>>
    /\ FetchReturn(t, [ok |-> TRUE, val |-> fr[t].buffer, err |-> <<>>],
                   NoError)
    /\ UNCHANGED <<env, driver, bucket, calls>>

-----------------------------------------------------------------------------
(* list_objects *)

PageSize == 50

\* "Unknown"
Unknown == <<85, 110, 107, 110, 111, 119, 110>>

\* keys assigned from the page instead of extended by it
PushKeys_Overwrite(keys, output) ==
    [i \in 1..Len(output.contents) |->
        IF output.contents[i].key.some THEN output.contents[i].key.v
        ELSE Unknown]

\* Ok(output): push the key of every object of the page
PushKeys(keys, output) ==
    keys \o [i \in 1..Len(output.contents) |->
               IF output.contents[i].key.some THEN output.contents[i].key.v
               ELSE Unknown]

\* the loop left with break: the keys gathered so far are returned
PageErr_Partial(keys) == OkRet(<<>>, keys, 0)

\* Err(err): what list_objects returns when a page fails
PageErr(keys) == ErrRet(<<"Unable to list objects">>)

ListObjects(t, file_path) ==
    /\ CanCall(t)
    /\ calls' = calls + 1
    /\ fr' = [fr EXCEPT ![t] =
          [NoFrame EXCEPT !.op = "list_objects", !.path = file_path,
             !.key = ListPrefix(file_path)]]
    /\ pc' = [pc EXCEPT ![t] = "list"]
    /\ UNCHANGED <<env, driver, bucket, result>>

\* response.next() yields Ok(output); after the last page it yields None
\* and list_objects returns Ok(keys)
ListPage(t) ==
    /\ pc[t] = "list"
    /\ LET output == ListObjectsV2(bucket, fr[t].key, fr[t].token, PageSize)
           keys == PushKeys(fr[t].keys, output)
       IN  IF output.next.some
           THEN /\ fr' = [fr EXCEPT ![t].keys = keys,
                                    ![t].token = output.next,
                                    ![t].pages = fr[t].pages + 1]
                /\ UNCHANGED <<pc, result>>
           ELSE /\ pc' = [pc EXCEPT ![t] = "idle"]
                /\ result' = [result EXCEPT ![t] =
                      [NoResult EXCEPT !.op = "list_objects",
                         !.path = fr[t].path, !.key = fr[t].key,
                         !.ret = OkRet(<<>>, keys, 0),
                         !.pages = fr[t].pages + 1]]
                /\ fr' = [fr EXCEPT ![t] = NoFrame]
    /\ UNCHANGED <<env, driver, bucket, calls>>

\* response.next() yields Err(err)
ListPageFailed(t) ==
    /\ pc[t] = "list"
    /\ pc' = [pc EXCEPT ![t] = "idle"]
    /\ result' = [result EXCEPT ![t] =
          [NoResult EXCEPT !.op = "list_objects", !.path = fr[t].path,
             !.key = fr[t].key, !.ret = PageErr(fr[t].keys),
             !.fault = DispatchFailure, !.pages = fr[t].pages + 1]]
    /\ fr' = [fr EXCEPT ![t] = NoFrame]
    /\ UNCHANGED <<env, driver, bucket, calls>>

-----------------------------------------------------------------------------
(* One caller using a freshly built driver on an empty bucket *)

Init ==
    /\ env \in SUBSET ConfigVars
    /\ driver = "unbuilt"
    /\ bucket = <<>>
    /\ pc = [t \in Tasks |-> "idle"]
    /\ fr = [t \in Tasks |-> NoFrame]
    /\ result = [t \in Tasks |-> NoResult]
    /\ calls = 0

Next ==
    \/ New
    \/ \E f \in Files, s \in Strings : UploadObject(1, f.name, s, f.path)
    \/ \E f \in Files, b \in Blobs :
          UploadCompressedObject(1, f.name, b, f.path)
    \/ \E f \in Files : FetchObject(1, f.name, f.path)
    \/ \E f \in Files : FetchCompressedObject(1, f.name, f.path)
    \/ \E p \in ListPaths : ListObjects(1, p)
    \/ PutApplied(1)
    \/ PutFailed(1)
    \/ GetAnswered(1)
    \/ GetFailed(1)
    \/ BodyChunk(1)
    \/ BodyFailed(1)
    \/ BodyEnd(1)
    \/ ListPage(1)
    \/ ListPageFailed(1)

Spec == Init /\ [][Next]_vars

-----------------------------------------------------------------------------
(* Two tasks sharing one driver: uploads and fetches in flight together *)

InitShared ==
    /\ env = ConfigVars
    /\ driver = AwsS3New(env)
    /\ bucket = <<>>
    /\ pc = [t \in Tasks |-> "idle"]
    /\ fr = [t \in Tasks |-> NoFrame]
    /\ result = [t \in Tasks |-> NoResult]
    /\ calls = 0

NextShared ==
    \/ \E t \in Tasks, f \in SharedFiles, s \in SharedStrings :
          UploadObject(t, f.name, s, f.path)
    \/ \E t \in Tasks, f \in SharedFiles : FetchObject(t, f.name, f.path)
    \/ \E t \in Tasks : PutApplied(t)
    \/ \E t \in Tasks : PutFailed(t)
    \/ \E t \in Tasks : GetAnswered(t)
    \/ \E t \in Tasks : GetFailed(t)
    \/ \E t \in Tasks : BodyChunk(t)
    \/ \E t \in Tasks : BodyFailed(t)
    \/ \E t \in Tasks : BodyEnd(t)

SpecShared == InitShared /\ [][NextShared]_vars

-----------------------------------------------------------------------------
(* Listing a bucket that already holds many objects *)

\* "000", "001", ...
Numeral(i) == <<48 + (i \div 100), 48 + ((i \div 10) % 10), 48 + (i % 10)>>

BulkObject(k) == [key |-> k, bytes |-> <<>>, by |-> NoBy]

\* "a/000" .. "a/<n-1>", then "b/000" and "c"
BulkBucket(n) ==
    [i \in 1..n |-> BulkObject(<<97, 47>> \o Numeral(i - 1))]
    \o <<BulkObject(<<98, 47>> \o Numeral(0)), BulkObject(<<99>>)>>

InitList ==
    /\ env = ConfigVars
    /\ driver = AwsS3New(env)
    /\ \E n \in 0..MaxObjs : bucket = BulkBucket(n)
    /\ pc = [t \in Tasks |-> "idle"]
    /\ fr = [t \in Tasks |-> NoFrame]
    /\ result = [t \in Tasks |-> NoResult]
    /\ calls = 0

NextList ==
    \/ \E p \in ListPaths : ListObjects(1, p)
    \/ ListPage(1)
    \/ ListPageFailed(1)

SpecList == InitList /\ [][NextList]_vars

-----------------------------------------------------------------------------
(* Properties *)

FetchOps == {"fetch_object", "fetch_compressed_object"}
UploadOps == {"upload_object", "upload_compressed_object"}

\* the storage key of (path, name), as the specification states it
DerivedKey(path, name) ==
    IF path = None THEN name ELSE path.v \o <<47>> \o name

RECURSIVE ByteLength(_)
\* the number of bytes of a string in UTF-8
ByteLength(s) ==
    IF s = <<>> THEN 0
    ELSE (IF Head(s) < 128 THEN 1 ELSE IF Head(s) < 2048 THEN 2
          ELSE IF Head(s) < 65536 THEN 3 ELSE 4) + ByteLength(Tail(s))

\* the last call of task t was op and its backend requests all succeeded
Completed(t, op) == result[t].op = op /\ result[t].fault = NoError

\* the errors a fetch returns when the backend get itself fails
GetErrors ==
    {<<"Failed to get json file: ", Display(e)>> :
        e \in {ServiceError("NoSuchKey"), ServiceError("AccessDenied"),
               DispatchFailure, ResponseError}}

\* C1: a successful upload_object returns the byte length of its contents
\* and stores them; a fetch_object that reads the object such an upload
\* wrote (no other upload to the key came between) returns the uploaded
\* string unchanged.
C1_PlainRoundTrip ==
    \A t \in Tasks :
        /\ result[t].op = "upload_object" /\ result[t].ret.ok =>
              /\ result[t].ret.size = ByteLength(result[t].input)
              /\ HasObject(bucket, result[t].key)
              /\ Len(ObjectAt(bucket, result[t].key).bytes)
                    = result[t].ret.size
        /\ Completed(t, "fetch_object")
              /\ result[t].got.op = "upload_object" =>
              /\ result[t].ret.ok
              /\ result[t].ret.val = result[t].got.contents
              /\ result[t].got.size = ByteLength(result[t].got.contents)

\* a fetch returned a two-character, three-byte string as it was uploaded
C1_Witness ==
    /\ Completed(1, "fetch_object")
    /\ result[1].ret.ok
    /\ result[1].got.op = "upload_object"
    /\ result[1].ret.val = <<65, 233>>
    /\ result[1].got.size = 3

\* C2: a fetch_compressed_object that reads the object an
\* upload_compressed_object wrote returns the uploaded bytes (the empty
\* sequence included) and the byte length of the compressed payload stored
\* at the key, which is the size the upload returned.
C2_CompressedRoundTrip ==
    \A t \in Tasks :
        /\ result[t].op = "upload_compressed_object" /\ result[t].ret.ok =>
              /\ HasObject(bucket, result[t].key)
              /\ Len(ObjectAt(bucket, result[t].key).bytes)
                    = result[t].ret.size
        /\ Completed(t, "fetch_compressed_object")
              /\ result[t].got.op = "upload_compressed_object" =>
              /\ result[t].ret.ok
              /\ result[t].ret.val = result[t].got.contents
              /\ result[t].ret.size = result[t].got.size
              /\ result[t].ret.size
                    = Len(ObjectAt(bucket, result[t].key).bytes)

\* four bytes came back, with a compressed size that is not their length
C2_Witness ==
    /\ Completed(1, "fetch_compressed_object")
    /\ result[1].ret.ok
    /\ result[1].ret.val = <<7, 7, 7, 7>>
    /\ result[1].ret.size # Len(result[1].ret.val)

\* the keys of the bucket with the prefix of a listed path
KeysUnder(path) ==
    {bucket[i].key : i \in {j \in 1..Len(bucket) :
        StartsWith(bucket[j].key,
                   IF path.some THEN path.v \o <<47>> ELSE <<>>)}}

\* C3: a list_objects whose pages all succeed, on a store that does not
\* change, returns the stored keys with the prefix, each exactly once,
\* whatever their number is relative to the page size.
C3_PaginationTransparency ==
    \A t \in Tasks :
        result[t].op = "list_objects" /\ result[t].ret.ok =>
            /\ {result[t].ret.keys[i] : i \in 1..Len(result[t].ret.keys)}
                  = KeysUnder(result[t].path)
            /\ Len(result[t].ret.keys) = Cardinality(KeysUnder(result[t].path))

\* 120 keys under one path were listed in three pages
C3_Witness ==
    /\ result[1].op = "list_objects"
    /\ result[1].ret.ok
    /\ result[1].path = Some(<<97>>)
    /\ Len(result[1].ret.keys) = 120
    /\ result[1].pages = 3

\* the number of page requests a complete listing takes
PagesNeeded(path) ==
    LET n == Cardinality(KeysUnder(path)) IN
    IF n = 0 THEN 1 ELSE (n + PageSize - 1) \div PageSize

\* a list_objects one of whose pages failed returns the error and no key;
\* it returns keys only when every page up to exhaustion succeeded
C4_NoPartialResult ==
    \A t \in Tasks :
        result[t].op = "list_objects" =>
            /\ result[t].fault # NoError =>
                  /\ ~result[t].ret.ok
                  /\ result[t].ret.keys = <<>>
                  /\ result[t].ret.err = <<"Unable to list objects">>
                  /\ result[t].pages <= PagesNeeded(result[t].path)
            /\ result[t].ret.ok =>
                  /\ result[t].fault = NoError
                  /\ result[t].pages = PagesNeeded(result[t].path)

\* the step in which a page fails ends the call: the failed request is the
\* last one the call issued
C4_FailureEndsCall ==
    \A t \in Tasks :
        pc[t] = "list" /\ result'[t] # result[t]
            /\ result'[t].fault # NoError =>
            /\ pc'[t] = "idle"
            /\ result'[t].pages = fr[t].pages + 1
            /\ Len(fr[t].keys) = PageSize * fr[t].pages

\* C4: list_objects is all-or-nothing: a failed page, whichever it is,
\* yields the error and none of the keys of earlier pages, no page is
\* requested after it, and keys are returned only when every page succeeded.
C4_AllOrNothing == []C4_NoPartialResult /\ [][C4_FailureEndsCall]_vars

\* the third page failed after two pages had succeeded
C4_Witness ==
    /\ result[1].op = "list_objects"
    /\ result[1].fault # NoError
    /\ result[1].pages = 3
    /\ ~result[1].ret.ok
    /\ result[1].ret.keys = <<>>

\* the keys a completed listing returned
Listed(t) == {result[t].ret.keys[i] : i \in 1..Len(result[t].ret.keys)}

\* C5 as stated: an object uploaded under a path is listed under that path
\* and under no other path, and an object uploaded with no path is listed
\* by list_objects(None).
C5_ScopingAsStated ==
    \A t \in Tasks : \A i \in 1..Len(bucket) :
        result[t].op = "list_objects" /\ result[t].ret.ok =>
            LET o == bucket[i] IN
            /\ o.by.path = result[t].path => o.key \in Listed(t)
            /\ o.by.path.some /\ result[t].path.some
                  /\ o.by.path # result[t].path => o.key \notin Listed(t)

\* C5 amended: an object uploaded under a path is listed under that path,
\* an object uploaded with no path is listed by list_objects(None), and
\* list_objects(Some(y)) lists an object exactly when its derived key
\* starts with y followed by "/", whatever path it was uploaded under.
C5_Scoping ==
    \A t \in Tasks : \A i \in 1..Len(bucket) :
        result[t].op = "list_objects" /\ result[t].ret.ok =>
            LET o == bucket[i] IN
            /\ o.by.path = result[t].path => o.key \in Listed(t)
            /\ result[t].path.some =>
                  (o.key \in Listed(t)
                     <=> StartsWith(o.key, result[t].path.v \o <<47>>))

\* listing "b" left out an object uploaded under "a"
C5_Witness ==
    /\ result[1].op = "list_objects"
    /\ result[1].ret.ok
    /\ result[1].path = Some(<<98>>)
    /\ \E i \in 1..Len(bucket) :
          bucket[i].by.path = Some(<<97>>) /\ bucket[i].key \notin Listed(1)

\* the returned error string names the fault code
NamesFault(err, code) == \E i \in 1..Len(err) : err[i] = code

C7_DecodeFailureIsolation ==
    \A t \in Tasks :
        /\ Completed(t, "fetch_object")
              /\ result[t].got.op = "upload_compressed_object" =>
              /\ ~result[t].ret.ok
              /\ result[t].ret.err # <<>>
              /\ result[t].ret.err \notin GetErrors
        /\ Completed(t, "fetch_compressed_object")
              /\ result[t].got.op = "upload_object" =>
              /\ ~result[t].ret.ok
              /\ result[t].ret.err # <<>>
              /\ result[t].ret.err \notin GetErrors

\* fetch_compressed_object read a plain object and failed to decompress it
C7_Witness ==
    /\ Completed(1, "fetch_compressed_object")
    /\ result[1].got.op = "upload_object"
    /\ result[1].got.contents = <<65, 233>>
    /\ ~result[1].ret.ok

\* C8: every get and put addresses the key path + "/" + name, or name when
\* there is no path; a fetch through one (path, name) returns what an
\* upload through another pair with the same derived key stored.
C8_KeyDerivation ==
    /\ \A t \in Tasks :
          /\ pc[t] \in {"put", "get", "body"} =>
                fr[t].key = DerivedKey(fr[t].path, fr[t].name)
          /\ result[t].op \in FetchOps \cup UploadOps =>
                result[t].key = DerivedKey(result[t].path, result[t].name)
          /\ Completed(t, "fetch_object")
                /\ result[t].got.op = "upload_object" =>
                /\ DerivedKey(result[t].got.path, result[t].got.name)
                      = DerivedKey(result[t].path, result[t].name)
                /\ result[t].ret.val = result[t].got.contents
    /\ \A i \in 1..Len(bucket) :
          bucket[i].key = DerivedKey(bucket[i].by.path, bucket[i].by.name)

\* ("a", "b/c") fetched what ("a/b", "c") uploaded
C8_Witness ==
    /\ Completed(1, "fetch_object")
    /\ result[1].ret.ok
    /\ result[1].path = Some(<<97>>)
    /\ result[1].name = <<98, 47, 99>>
    /\ result[1].got.path = Some(<<97, 47, 98>>)
    /\ result[1].got.name = <<99>>
    /\ result[1].ret.val = <<65, 233>>

\* C9: AwsS3::new returns None when any of the four configuration values
\* is absent, a driver when all four are present, and never panics.
C9_ConstructionFallback ==
    driver # "unbuilt" =>
        /\ driver # "panic"
        /\ driver = "None" <=> env # ConfigVars
        /\ driver = "Some" <=> env = ConfigVars

\* only the bucket name was missing
C9_Witness ==
    /\ driver = "None"
    /\ env = ConfigVars \ {"BRIDGE_AWS_BUCKET"}

\* what a fetch has read so far and has yet to read is together the whole
\* contents of one upload to its key, and a successful fetch returns them
C10_WholeObject ==
    \A t \in Tasks :
        /\ pc[t] = "body" =>
              /\ fr[t].got.op = "upload_object"
              /\ DerivedKey(fr[t].got.path, fr[t].got.name) = fr[t].key
              /\ fr[t].buffer \o fr[t].data = AsBytes(fr[t].got.contents)
        /\ result[t].op = "fetch_object" /\ result[t].ret.ok =>
              /\ result[t].got.op = "upload_object"
              /\ DerivedKey(result[t].got.path, result[t].got.name)
                    = result[t].key
              /\ result[t].ret.val = result[t].got.contents

StoredAt(b, k) == IF HasObject(b, k) THEN ObjectAt(b, k).bytes ELSE <<-1>>

\* a step changes the object at a key only by applying an upload addressed
\* to that key, which replaces whatever was there and succeeds
C10_OnlyOwnKey ==
    \A k \in {bucket[i].key : i \in 1..Len(bucket)}
             \cup {bucket'[i].key : i \in 1..Len(bucket')} :
        StoredAt(bucket', k) # StoredAt(bucket, k) =>
            \E t \in Tasks :
                /\ pc[t] = "put" /\ pc'[t] = "idle"
                /\ fr[t].key = k
                /\ StoredAt(bucket', k) = fr[t].data
                /\ result'[t].ret.ok

\* C10: with uploads and fetches of two tasks interleaved in any order, an
\* upload overwrites its key without a check and changes no other key, and
\* a fetch returns the whole contents of the one upload whose object the
\* backend returned, never a mix of two.
C10_LastWriteWins == []C10_WholeObject /\ [][C10_OnlyOwnKey]_vars

\* a fetch is half way through an object that has since been overwritten
C10_Witness ==
    \E t \in Tasks :
        /\ pc[t] = "body"
        /\ fr[t].buffer # <<>>
        /\ fr[t].data # <<>>
        /\ HasObject(bucket, fr[t].key)
        /\ ObjectAt(bucket, fr[t].key).by.contents # fr[t].got.contents

=============================================================================
